---------------------------- MODULE Spec2Model ----------------------------
(***************************************************************************)
(* Model of server.js (elite-player-tracker): the season resolver          *)
(* (getNBASeason), the EPT score (calcEPT), the normalizer / ranker        *)
(* (the synchronous part of getSeasonStats), the upstream fetch promise    *)
(* (fetchNBA) and the /api/stats request handler.                          *)
(*                                                                         *)
(* JavaScript numbers are modelled as exact rationals [n, d].  The totals  *)
(* of the upstream table are integers and the percentage cells are         *)
(* thousandths, so every sum and product below is exact in IEEE doubles;   *)
(* the only place where the binary rounding of a double is observable is   *)
(* toFixed(1) applied to a quotient that lies exactly half way between two *)
(* tenths, and RoundErr computes the direction of that rounding error.     *)
(***************************************************************************)
EXTENDS Integers, Sequences, FiniteSets

VARIABLES
    now,        \* the wall clock read by new Date(): [year, month]
    season,     \* the last label returned by getNBASeason ("" chars), or <<>>
    data,       \* normalizer: the parsed upstream payload
    out,        \* normalizer: what getSeasonStats returned or threw
    pc,         \* server: per request, the position of the handler
    up,         \* server: per request, the state of the upstream exchange
    promise,    \* server: per request, the promise made by fetchNBA
    response,   \* server: per request, the sequence of responses written
    fetches,    \* server: per request, the number of https.get calls
    normalized  \* server: per request, the number of normalizations run

vars == <<now, season, data, out, pc, up, promise, response, fetches, normalized>>

---------------------------------------------------------------------------
(* Numbers *)

Num(n, d) == [n |-> n, d |-> d]

Abs(x) == IF x < 0 THEN -x ELSE x

RECURSIVE GCD(_, _)
GCD(a, b) == IF b = 0 THEN a ELSE GCD(b, a % b)

\* a rational in lowest terms with a positive denominator
Norm(x) ==
    LET g == GCD(Abs(x.n), x.d)
    IN  IF x.n = 0 THEN Num(0, 1) ELSE Num(x.n \div g, x.d \div g)

Add(a, b) == Norm(Num(a.n * b.d + b.n * a.d, a.d * b.d))
Sub(a, b) == Norm(Num(a.n * b.d - b.n * a.d, a.d * b.d))
Mul(a, b) == Norm(Num(a.n * b.n, a.d * b.d))
\* a / b for b > 0
Div(a, b) == Norm(Num(a.n * b.d, a.d * b.n))
\* a - b as the sort comparator uses it: only the sign matters
Less(a, b) == a.n * b.d < b.n * a.d

Zero == Num(0, 1)

\* truthiness of a number (gp ? ... : 0)
Truthy(x) == x.n # 0

---------------------------------------------------------------------------
(* Number.prototype.toFixed(1) and the unary plus *)

\* 2^k mod 5
Pow2Mod5(k) == <<1, 2, 4, 3>>[(k % 4) + 1]

\* floor(log2(j / 20)) for j > 0
RECURSIVE Log2Up(_, _)
Log2Up(j, e) == IF j >= 40 * (2 ^ e) THEN Log2Up(j, e + 1) ELSE e
RECURSIVE Log2Down(_, _)
Log2Down(j, s) == IF j * (2 ^ s) >= 20 THEN s ELSE Log2Down(j, s + 1)
FloorLog2Of20th(j) == IF j >= 20 THEN Log2Up(j, 0) ELSE -Log2Down(j, 0)

\* The sign of (the double nearest to q) - q, for a quotient q > 0 of two
\* integers that lies half way between two tenths (q = j/20 with j odd); 0
\* for every other q, where the error cannot change the digit toFixed picks.
\* j/20 is a double exactly when 5 divides j.  Otherwise the 53-bit
\* significand is cut k = 50 - floor(log2 q) binary places below j/5, and the
\* part cut off is ((j * 2^k) mod 5) / 5 of a unit in the last place.
RoundErr(q) ==
    IF q.n <= 0 \/ 20 % q.d # 0 THEN 0
    ELSE LET j == q.n * (20 \div q.d)
             k == 50 - FloorLog2Of20th(j)
             f == ((j % 5) * Pow2Mod5(k)) % 5
         IN  IF j % 2 = 0 \/ j % 5 = 0 THEN 0
             ELSE IF f >= 3 THEN 1 ELSE -1

\* x.toFixed(1): the integer n for which n/10 - x is closest to zero, the
\* larger n when two are equally close; a negative x is formatted as "-"
\* followed by (-x).toFixed(1).  The result is the decimal string, modelled
\* as [neg, whole, frac] ("-", the integer digits' value, the one fraction
\* digit).  err is the sign of (the double) - x.
ToFixed1(x, err) ==
    LET m    == Abs(x.n) * 10
        lo   == m \div x.d
        rem2 == 2 * (m % x.d)
        n    == IF rem2 > x.d THEN lo + 1
                ELSE IF rem2 < x.d THEN lo
                ELSE IF err < 0 THEN lo ELSE lo + 1
    IN  [neg |-> x.n < 0, whole |-> n \div 10, frac |-> n % 10]

\* +"<whole>.<frac>": the number a decimal string with one fraction digit denotes
ToNumber(s) ==
    LET t == s.whole * 10 + s.frac
    IN  Norm(Num(IF s.neg THEN -t ELSE t, 10))

\* +(x).toFixed(1)
Round1(x, err) == ToNumber(ToFixed1(x, err))

---------------------------------------------------------------------------
(* getNBASeason *)

\* String(n) for n >= 0, as a sequence of one-character strings
DigitChar(k) == <<"0", "1", "2", "3", "4", "5", "6", "7", "8", "9">>[k + 1]
RECURSIVE StringOf(_)
StringOf(n) == IF n < 10 THEN <<DigitChar(n)>>
               ELSE StringOf(n \div 10) \o <<DigitChar(n % 10)>>

\* s.padStart(len, ch)
RECURSIVE PadStart(_, _, _)
PadStart(s, len, ch) == IF Len(s) >= len THEN s ELSE PadStart(<<ch>> \o s, len, ch)

\* month is Date.getMonth(): 0 = January ... 11 = December
SeasonBoundaryMonth == 9

\* the boundary compared with a month counted from 1
StartYearOneBased(date) ==
    IF date.month >= SeasonBoundaryMonth + 1 THEN date.year ELSE date.year - 1

StartYear(date) == IF date.month >= SeasonBoundaryMonth THEN date.year ELSE date.year - 1
EndYear(date) == (StartYear(date) + 1) % 100

getNBASeason(date) ==
    StringOf(StartYear(date)) \o <<"-">> \o PadStart(StringOf(EndYear(date)), 2, "0")

---------------------------------------------------------------------------
(* calcEPT *)

W15 == Num(3, 2)
W3  == Num(3, 1)

\* calcEPT with the weight of blocks taken from the line above it
calcEPTBlockWeight(pts, reb, ast, stl, blk, tov) ==
    LET s1 == Mul(pts, W15)
        s2 == Add(s1, Mul(reb, W15))
        s3 == Add(s2, Mul(ast, W15))
        s4 == Add(s3, Mul(stl, W3))
        s5 == Add(s4, Mul(blk, W15))
        s6 == Sub(s5, Mul(tov, W15))
    IN  Round1(s6, 0)

calcEPT(pts, reb, ast, stl, blk, tov) ==
    LET s1 == Mul(pts, W15)
        s2 == Add(s1, Mul(reb, W15))
        s3 == Add(s2, Mul(ast, W15))
        s4 == Add(s3, Mul(stl, W3))
        s5 == Add(s4, Mul(blk, W3))
        s6 == Sub(s5, Mul(tov, W15))
    IN  Round1(s6, 0)

---------------------------------------------------------------------------
(* Values of the upstream table *)

Undefined == [t |-> "undefined", n |-> 0, d |-> 1]
Null      == [t |-> "null", n |-> 0, d |-> 1]
NumCell(n, d) == [t |-> "num", n |-> n, d |-> d]
\* a string value; n identifies the string
StrCell(n) == [t |-> "str", n |-> n, d |-> 1]

\* v ?? dflt
Nullish(v) == v.t \in {"undefined", "null"}
Coalesce(v, dflt) == IF Nullish(v) THEN dflt ELSE v

\* the number a numeric cell holds
Value(v) == Norm(Num(v.n, v.d))

\* headers.forEach((h, i) => (idx[h] = i)): left to right, a later header of
\* the same name overwrites the earlier index; i is zero-based
RECURSIVE IdxFold(_, _, _)
IdxFold(headers, i, idx) ==
    IF i >= Len(headers) THEN idx
    ELSE LET h == headers[i + 1]
         IN  IdxFold(headers, i + 1,
                     [x \in (DOMAIN idx) \cup {h} |-> IF x = h THEN i ELSE idx[x]])

BuildIdx(headers) == IdxFold(headers, 0, [x \in {} |-> 0])

\* r[idx[h]]: undefined when h is not a key of idx or the row has no such column
Cell(r, idx, h) ==
    IF h \notin DOMAIN idx THEN Undefined
    ELSE IF idx[h] + 1 \in DOMAIN r THEN r[idx[h] + 1] ELSE Undefined

\* r[idx[h] ?? 0] ?? 0: the default applied to the index instead of the cell
TotalIndexDefault(r, idx, h) ==
    Value(Coalesce(IF h \in DOMAIN idx THEN Cell(r, idx, h) ELSE r[1], NumCell(0, 1)))

\* r[idx[h]] ?? 0
Total(r, idx, h) == Value(Coalesce(Cell(r, idx, h), NumCell(0, 1)))

\* the percentage column used whenever the table has it, null cell or not
PctColumnOnly(r, idx, h, made, att) ==
    IF h \in DOMAIN idx THEN Value(Cell(r, idx, h))
    ELSE IF Truthy(att) THEN Div(made, att) ELSE Zero

\* r[idx[h]] ?? (att ? made / att : 0)
Pct(r, idx, h, made, att) ==
    LET c == Cell(r, idx, h)
    IN  IF ~Nullish(c) THEN Value(c)
        ELSE IF Truthy(att) THEN Div(made, att) ELSE Zero

\* +(pct * 100).toFixed(1).  With attempts below 80 a derived percentage that
\* lies half way between two tenths is a multiple of 1/16 and so is exact in
\* doubles, as is its product with 100: the rounding error is 0.
Pct100(p) == Round1(Mul(p, Num(100, 1)), 0)

\* the quotient cut after its first decimal instead of rounded
PerGameTruncated(total, gp) ==
    IF Truthy(gp)
    THEN Norm(Num((Div(total, gp).n * 10) \div Div(total, gp).d, 10))
    ELSE Zero

\* gp ? +(total / gp).toFixed(1) : 0
PerGame(total, gp) ==
    IF Truthy(gp) THEN Round1(Div(total, gp), RoundErr(Div(total, gp))) ELSE Zero

\* the arrow function of rows.map
Project(r, idx) ==
    LET gp   == Total(r, idx, "GP")
        pts  == Total(r, idx, "PTS")
        reb  == Total(r, idx, "REB")
        ast  == Total(r, idx, "AST")
        stl  == Total(r, idx, "STL")
        blk  == Total(r, idx, "BLK")
        tov  == Total(r, idx, "TOV")
        fgm  == Total(r, idx, "FGM")
        fga  == Total(r, idx, "FGA")
        fg3m == Total(r, idx, "FG3M")
        fg3a == Total(r, idx, "FG3A")
        ftm  == Total(r, idx, "FTM")
        fta  == Total(r, idx, "FTA")
        fgPct == Pct(r, idx, "FG_PCT", fgm, fga)
        ftPct == Pct(r, idx, "FT_PCT", ftm, fta)
        tpPct == Pct(r, idx, "FG3_PCT", fg3m, fg3a)
    IN  [name |-> Cell(r, idx, "PLAYER"),
         team |-> Cell(r, idx, "TEAM"),
         gp |-> gp, pts |-> pts, reb |-> reb, ast |-> ast,
         stl |-> stl, blk |-> blk, tov |-> tov,
         fgm |-> fgm, fga |-> fga, fg3m |-> fg3m, fg3a |-> fg3a,
         ftm |-> ftm, fta |-> fta,
         fgPct |-> Pct100(fgPct),
         ftPct |-> Pct100(ftPct),
         tpPct |-> Pct100(tpPct),
         ppg  |-> PerGame(pts, gp),
         rpg  |-> PerGame(reb, gp),
         apg  |-> PerGame(ast, gp),
         spg  |-> PerGame(stl, gp),
         bpg  |-> PerGame(blk, gp),
         topg |-> PerGame(tov, gp),
         ept  |-> calcEPT(pts, reb, ast, stl, blk, tov)]

\* rows.map(...)
MapRows(rows, idx) == [i \in DOMAIN rows |-> Project(rows[i], idx)]

\* the comparator (a, b) => a.ept - b.ept
BeforeAscending(b, a) == Less(b.ept, a.ept)

\* the comparator (a, b) => b.ept - a.ept is positive, so b goes before a
Before(b, a) == Less(a.ept, b.ept)

\* players.sort(comparator): Array.prototype.sort is stable; p is inserted
\* after every element it does not have to go before
RECURSIVE Insert(_, _)
Insert(sorted, p) ==
    IF sorted = <<>> THEN <<p>>
    ELSE IF Before(p, Head(sorted)) THEN <<p>> \o sorted
    ELSE <<Head(sorted)>> \o Insert(Tail(sorted), p)

RECURSIVE SortFrom(_, _, _)
SortFrom(players, i, acc) ==
    IF i > Len(players) THEN acc ELSE SortFrom(players, i + 1, Insert(acc, players[i]))

Sort(players) == SortFrom(players, 1, <<>>)

TopCount == 25

\* players.slice(0, 26)
SliceOneMore(players) ==
    SubSeq(players, 1, IF Len(players) < TopCount + 1 THEN Len(players) ELSE TopCount + 1)

\* players.slice(0, 25)
Slice(players) == SubSeq(players, 1, IF Len(players) < TopCount THEN Len(players) ELSE TopCount)

---------------------------------------------------------------------------
(* getSeasonStats after the await: from the parsed payload to the result *)

\* A parsed payload.  hasResultSet, hasHeaders and hasRows say whether
\* data.resultSet, data.resultSet.headers and data.resultSet.rowSet exist.
Payload(rs, hh, hr, headers, rowSet) ==
    [hasResultSet |-> rs, hasHeaders |-> hh, hasRows |-> hr,
     headers |-> headers, rowSet |-> rowSet]

Table(headers, rowSet) == Payload(TRUE, TRUE, TRUE, headers, rowSet)

NoDate == [year |-> 0, month |-> 0]

Return(players, label, date) ==
    [kind |-> "return", players |-> players, season |-> label,
     updatedAt |-> date, message |-> ""]

\* an exception leaves no value behind
Throw(message) ==
    [kind |-> "throw", players |-> <<>>, season |-> <<>>,
     updatedAt |-> NoDate, message |-> message]

\* (data.resultSet.rowSet || []): missing rows taken as no rows
NormalizeRowsDefault(d, label, date) ==
    IF ~d.hasResultSet THEN Throw("TypeError: reading 'headers' of undefined")
    ELSE IF ~d.hasHeaders THEN Throw("TypeError: reading 'forEach' of undefined")
    ELSE Return(Slice(Sort(MapRows(IF d.hasRows THEN d.rowSet ELSE <<>>,
                                   BuildIdx(d.headers)))), label, date)

\* data.resultSet.headers, headers.forEach and rows.map each dereference a
\* container; a missing one raises a TypeError.  label is the season computed
\* before the fetch, date the clock when the result is assembled.
Normalize(d, label, date) ==
    IF ~d.hasResultSet THEN Throw("TypeError: reading 'headers' of undefined")
    ELSE IF ~d.hasHeaders THEN Throw("TypeError: reading 'forEach' of undefined")
    ELSE IF ~d.hasRows THEN Throw("TypeError: reading 'map' of undefined")
    ELSE Return(Slice(Sort(MapRows(d.rowSet, BuildIdx(d.headers)))), label, date)

---------------------------------------------------------------------------
(* The payloads the normalizer is run on *)

TotalNames == {"GP", "PTS", "REB", "AST", "STL", "BLK", "TOV",
               "FGM", "FGA", "FG3M", "FG3A", "FTM", "FTA"}
PctKinds == {<<"FG_PCT", "FGM", "FGA">>, <<"FT_PCT", "FTM", "FTA">>,
             <<"FG3_PCT", "FG3M", "FG3A">>}

FullHeaders == <<"PLAYER", "TEAM", "GP", "PTS", "REB", "AST", "STL", "BLK", "TOV",
                 "FGM", "FGA", "FG3M", "FG3A", "FTM", "FTA",
                 "FG_PCT", "FT_PCT", "FG3_PCT">>
\* the headers of the example of the specification
ExampleHeaders == <<"PLAYER", "TEAM", "GP", "PTS", "REB", "AST", "STL", "BLK", "TOV">>
\* made / attempted columns in another order, no percentage columns
ShotHeaders == <<"FGA", "FGM", "TEAM", "FTA", "FTM", "PLAYER", "GP", "PTS",
                 "FG3A", "FG3M">>
\* a header that occurs twice
DupHeaders == <<"PLAYER", "TEAM", "GP", "PTS", "REB", "TOV", "PTS">>

I(k) == NumCell(k, 1)
\* a fraction given in thousandths, as the upstream gives its percentages
K(k) == NumCell(k, 1000)

FullBase == <<StrCell(1), StrCell(101), I(20), I(7), I(10), I(6), I(4), I(2), I(4),
              I(3), I(8), I(1), I(3), I(2), I(2), Null, Null, Null>>
FullPctBase == <<StrCell(1), StrCell(101), I(4), I(7), I(10), I(6), I(4), I(2), I(4),
                 I(3), I(8), I(1), I(3), I(2), I(2), K(473), K(850), K(333)>>
ExampleBase == <<StrCell(1), StrCell(101), I(2), I(20), I(10), I(6), I(4), I(2), I(4)>>
ShotBase == <<I(16), I(1), StrCell(101), I(0), I(0), StrCell(1), I(3), I(8), I(3), I(1)>>
DupBase == <<StrCell(1), StrCell(101), I(4), I(20), I(3), I(1), I(7)>>

\* the largest total an edited cell holds
MaxVal == 8

TotalVals == {Undefined, Null} \cup {I(k) : k \in 0..MaxVal}
PctVals == {Undefined, Null} \cup {K(k) : k \in {0, 333, 473, 1000}}

TotalCols(h) == {c \in DOMAIN h : h[c] \in TotalNames}
Pos(h, name) == CHOOSE c \in DOMAIN h : h[c] = name
Names(h) == {h[c] : c \in DOMAIN h}

\* base with the cells of total columns c1 and c2 replaced
PairEdit(base, c1, c2, v1, v2) == [base EXCEPT ![c1] = v1, ![c2] = v2]

\* base with one percentage cell and its made / attempted cells replaced
PctEdit(h, base, k, p, made, att) ==
    [base EXCEPT ![Pos(h, k[1])] = p, ![Pos(h, k[2])] = made, ![Pos(h, k[3])] = att]

Layouts == {<<FullHeaders, FullBase>>, <<FullHeaders, FullPctBase>>,
            <<ExampleHeaders, ExampleBase>>, <<ShotHeaders, ShotBase>>,
            <<DupHeaders, DupBase>>}

\* Rows of generated tables: all but the name, which is the row's position
Pool == <<
    <<StrCell(101), I(2), I(20), I(10), I(6), I(4), I(2), I(4),
      I(3), I(8), I(1), I(3), I(2), I(2), Null, Null, Null>>,
    <<StrCell(102), I(20), I(20), I(10), I(6), I(4), I(2), I(4),
      I(9), I(16), I(0), I(0), I(1), I(3), K(563), Null, Null>>,
    <<StrCell(101), I(0), I(30), I(1), I(1), I(0), I(0), I(2),
      I(0), I(0), I(0), I(0), I(0), I(0), Null, Null, Null>>,
    <<StrCell(103), I(3), Null, I(2), Null, I(1), I(0), I(9),
      I(1), I(2), I(1), I(2), Null, Null, Null, Null, K(500)>>,
    <<StrCell(102), I(7), I(41), I(12), I(9), I(5), I(3), I(1),
      I(15), I(30), I(4), I(12), I(7), I(8), K(500), K(875), K(333)>> >>

PoolSize == Len(Pool)

\* the largest number of rows of a generated table
MaxRows == 27

GenRow(i, stride, offset) == <<StrCell(i)>> \o Pool[((i * stride + offset) % PoolSize) + 1]

GenTable(n, stride, offset) ==
    Table(FullHeaders, [i \in 1..n |-> GenRow(i, stride, offset)])

\* payloads that lack the table's containers
Shapes == {<<FALSE, FALSE, FALSE>>, <<TRUE, FALSE, FALSE>>,
           <<TRUE, FALSE, TRUE>>, <<TRUE, TRUE, FALSE>>}

Malformed(f, t) ==
    Payload(f[1], f[2], f[3], IF f[2] THEN t.headers ELSE <<>>,
            IF f[3] THEN t.rowSet ELSE <<>>)

\* the clock of the normalizer's runs
NormDate == [year |-> 2025, month |-> 10]

NoOutput == [kind |-> "none", players |-> <<>>, season |-> <<>>,
             updatedAt |-> NoDate, message |-> ""]

\* server variables at rest
ServerIdle ==
    /\ pc = <<>> /\ up = <<>> /\ promise = <<>>
    /\ response = <<>> /\ fetches = <<>> /\ normalized = <<>>

InitNorm ==
    /\ now = NormDate
    /\ season = <<>>
    /\ out = NoOutput
    /\ ServerIdle
    /\ \/ \E n \in 0..MaxRows, st \in 0..(PoolSize - 1), off \in 0..(PoolSize - 1) :
            data = GenTable(n, st, off)
       \/ \E f \in Shapes, n \in 0..2, off \in 0..(PoolSize - 1) :
            data = Malformed(f, GenTable(n, 1, off))
       \/ \E l \in Layouts :
            \E c1 \in TotalCols(l[1]), c2 \in TotalCols(l[1]), v1 \in TotalVals, v2 \in TotalVals :
               /\ c1 <= c2
               /\ data = Table(l[1], <<PairEdit(l[2], c1, c2, v1, v2)>>)
       \/ \E l \in Layouts :
            \E k \in {x \in PctKinds : {x[1], x[2], x[3]} \subseteq Names(l[1])} :
               \E p \in PctVals, made \in TotalVals, att \in TotalVals :
                  data = Table(l[1], <<PctEdit(l[1], l[2], k, p, made, att)>>)

\* one run of the normalizer on the payload
NormalizeStep ==
    /\ out.kind = "none"
    /\ out' = Normalize(data, getNBASeason(now), now)
    /\ UNCHANGED <<now, season, data, pc, up, promise, response, fetches, normalized>>

NextNorm == NormalizeStep

SpecNorm == InitNorm /\ [][NextNorm]_vars

---------------------------------------------------------------------------
(* The season resolver run at every date of a range of years *)

FirstYear == 1998
LastYear == 2101

InitSeason ==
    /\ now \in [year : FirstYear..LastYear, month : 0..11]
    /\ season = <<>>
    /\ data = Table(<<>>, <<>>)
    /\ out = NoOutput
    /\ ServerIdle

\* const season = getNBASeason()
ResolveSeason ==
    /\ season = <<>>
    /\ season' = getNBASeason(now)
    /\ UNCHANGED <<now, data, out, pc, up, promise, response, fetches, normalized>>

NextSeason == ResolveSeason

SpecSeason == InitSeason /\ [][NextSeason]_vars

DigitValue(c) ==
    CASE c = "0" -> 0 [] c = "1" -> 1 [] c = "2" -> 2 [] c = "3" -> 3 [] c = "4" -> 4
      [] c = "5" -> 5 [] c = "6" -> 6 [] c = "7" -> 7 [] c = "8" -> 8 [] c = "9" -> 9
      [] OTHER -> -1

IsDigit(c) == DigitValue(c) >= 0

\* the season that is in progress in calendar month m (1..12) of year y
SeasonStart(y, m) == IF m >= 10 THEN y ELSE y - 1

\* C7: the label is S-EE, S the year when the month is October or later and
\* the year before otherwise, EE the two digits of (S + 1) mod 100
C7_Season ==
    season # <<>> =>
        LET S == SeasonStart(now.year, now.month + 1)
            E == (S + 1) % 100
        IN  /\ Len(season) = 7
            /\ \A i \in {1, 2, 3, 4, 6, 7} : IsDigit(season[i])
            /\ season[5] = "-"
            /\ 1000 * DigitValue(season[1]) + 100 * DigitValue(season[2])
                 + 10 * DigitValue(season[3]) + DigitValue(season[4]) = S
            /\ 10 * DigitValue(season[6]) + DigitValue(season[7]) = E
            /\ (now.year = 2025 /\ now.month = 10) => season = <<"2", "0", "2", "5", "-", "2", "6">>
            /\ (now.year = 2026 /\ now.month = 2) => season = <<"2", "0", "2", "5", "-", "2", "6">>
            /\ (now.year = 2026 /\ now.month = 8) => season = <<"2", "0", "2", "5", "-", "2", "6">>
            /\ (now.year = 2026 /\ now.month = 9) => season = <<"2", "0", "2", "6", "-", "2", "7">>

C7_Witness ==
    /\ now.year = 2100 /\ now.month = 8
    /\ season = <<"2", "0", "9", "9", "-", "0", "0">>

---------------------------------------------------------------------------
(* Properties of the normalizer, read off the payload and the result *)

Done == out.kind # "none"
WellFormed == data.hasResultSet /\ data.hasHeaders /\ data.hasRows

SetMax(S) == CHOOSE x \in S : \A y \in S : y <= x

\* the cell of row i under the last header named h
RawCell(i, h) ==
    LET cs == {c \in DOMAIN data.headers : data.headers[c] = h}
    IN  IF cs = {} \/ SetMax(cs) \notin DOMAIN data.rowSet[i] THEN Undefined
        ELSE data.rowSet[i][SetMax(cs)]

\* the integer total of row i under header h, 0 when there is none
RawInt(i, h) == IF RawCell(i, h).t = "num" THEN RawCell(i, h).n ELSE 0

\* the row a player record was made from (the names of a table are distinct)
Src(p) == CHOOSE i \in DOMAIN data.rowSet : RawCell(i, "PLAYER") = p.name

Players == {out.players[i] : i \in DOMAIN out.players}

IsTenth(x) == 10 % x.d = 0
Tenths(x) == (x.n * 10) \div x.d

\* x, a number of tenths, is a tenth nearest to num / den
NearestTenth(x, num, den) == IsTenth(x) /\ 2 * Abs(10 * num - Tenths(x) * den) <= den

\* C1: a well-formed table of N rows gives exactly min(N, 25) records, each
\* made from a row of its own, and never an error
C1_Count ==
    (Done /\ WellFormed) =>
        /\ out.kind = "return"
        /\ Len(out.players) = (IF Len(data.rowSet) < 25 THEN Len(data.rowSet) ELSE 25)
        /\ \A i, j \in DOMAIN out.players :
              i # j => out.players[i].name # out.players[j].name
        /\ \A p \in Players : \E i \in DOMAIN data.rowSet : RawCell(i, "PLAYER") = p.name

C1_Witness ==
    /\ out.kind = "return"
    /\ Len(data.rowSet) > 25
    /\ Len(out.players) = 25

\* C2: the returned players are sorted non-increasing by ept
C2_Sorted ==
    out.kind = "return" =>
        \A i, j \in DOMAIN out.players :
            i < j => out.players[i].ept.n * out.players[j].ept.d
                       >= out.players[j].ept.n * out.players[i].ept.d

C2_Witness ==
    /\ out.kind = "return"
    /\ Len(out.players) >= 3
    /\ \E i \in DOMAIN out.players :
          /\ i < Len(out.players)
          /\ Src(out.players[i]) > Src(out.players[i + 1])
          /\ out.players[i].ept # out.players[i + 1].ept

EptTenths(i) ==
    15 * RawInt(i, "PTS") + 15 * RawInt(i, "REB") + 15 * RawInt(i, "AST")
    + 30 * RawInt(i, "STL") + 30 * RawInt(i, "BLK") - 15 * RawInt(i, "TOV")

SameTotals(i, j) ==
    \A h \in {"PTS", "REB", "AST", "STL", "BLK", "TOV"} : RawInt(i, h) = RawInt(j, h)

\* C3: ept is pts*1.5 + reb*1.5 + ast*1.5 + stl*3 + blk*3 - tov*1.5 of the
\* row's totals to one decimal, whatever the games played
C3_Ept ==
    out.kind = "return" =>
        /\ \A p \in Players :
              IsTenth(p.ept) /\ Tenths(p.ept) = EptTenths(Src(p))
        /\ \A p, q \in Players : SameTotals(Src(p), Src(q)) => p.ept = q.ept

C3_Witness ==
    /\ out.kind = "return"
    /\ \E p, q \in Players :
          /\ p.gp # q.gp
          /\ SameTotals(Src(p), Src(q))
          /\ RawInt(Src(p), "PTS") = 20 /\ RawInt(Src(p), "REB") = 10
          /\ RawInt(Src(p), "AST") = 6 /\ RawInt(Src(p), "STL") = 4
          /\ RawInt(Src(p), "BLK") = 2 /\ RawInt(Src(p), "TOV") = 4
          /\ p.ept = Num(66, 1) /\ q.ept = Num(66, 1)

RatePairs == {<<"ppg", "PTS">>, <<"rpg", "REB">>, <<"apg", "AST">>,
              <<"spg", "STL">>, <<"bpg", "BLK">>, <<"topg", "TOV">>}

\* C4: each per-game rate is total / games to one decimal when games > 0 and
\* 0 when games is 0, and a table with a zero-games row is still normalized
C4_PerGame ==
    (Done /\ WellFormed) =>
        /\ out.kind = "return"
        /\ \A p \in Players : \A k \in RatePairs :
              IF RawInt(Src(p), "GP") = 0 THEN p[k[1]] = Zero
              ELSE NearestTenth(p[k[1]], RawInt(Src(p), k[2]), RawInt(Src(p), "GP"))

C4_Witness ==
    /\ out.kind = "return"
    /\ \E p, q \in Players :
          /\ RawInt(Src(p), "GP") = 0 /\ RawInt(Src(p), "PTS") > 0 /\ p.ppg = Zero
          /\ RawInt(Src(q), "GP") = 7 /\ RawInt(Src(q), "PTS") = 41 /\ q.ppg = Num(59, 10)

PctFields == {<<"fgPct", "FG_PCT", "FGM", "FGA">>, <<"ftPct", "FT_PCT", "FTM", "FTA">>,
              <<"tpPct", "FG3_PCT", "FG3M", "FG3A">>}

\* C5: a percentage is the explicit cell when the column has a non-null
\* cell, else made / attempted, else 0 when attempted is 0; it is stored
\* times 100 to one decimal
C5_Pct ==
    out.kind = "return" =>
        \A p \in Players : \A k \in PctFields :
            LET c == RawCell(Src(p), k[2])
                made == RawInt(Src(p), k[3])
                att == RawInt(Src(p), k[4])
            IN  IF c.t = "num" THEN NearestTenth(p[k[1]], 100 * c.n, c.d)
                ELSE IF att = 0 THEN p[k[1]] = Zero
                ELSE NearestTenth(p[k[1]], 100 * made, att)

C5_Witness ==
    /\ out.kind = "return"
    /\ \E p \in Players :
          /\ RawCell(Src(p), "FG_PCT") = K(563) /\ p.fgPct = Num(563, 10)
          /\ RawInt(Src(p), "FGM") = 9 /\ RawInt(Src(p), "FGA") = 16
          /\ RawCell(Src(p), "FT_PCT") = Null
          /\ RawInt(Src(p), "FTM") = 1 /\ RawInt(Src(p), "FTA") = 3
          /\ p.ftPct = Num(333, 10)
          /\ RawInt(Src(p), "FG3A") = 0 /\ p.tpPct = Zero

TotalFields == {<<"gp", "GP">>, <<"pts", "PTS">>, <<"reb", "REB">>, <<"ast", "AST">>,
                <<"stl", "STL">>, <<"blk", "BLK">>, <<"tov", "TOV">>,
                <<"fgm", "FGM">>, <<"fga", "FGA">>, <<"fg3m", "FG3M">>,
                <<"fg3a", "FG3A">>, <<"ftm", "FTM">>, <<"fta", "FTA">>}

RecordFields == {"name", "team", "fgPct", "ftPct", "tpPct",
                 "ppg", "rpg", "apg", "spg", "bpg", "topg", "ept"}
                \cup {k[1] : k \in TotalFields}

\* C6: a table with headers and rows is normalized without an error; a total
\* whose header is absent or whose cell is null / undefined is 0, and the
\* record of its row has every field
C6_Defaults ==
    (Done /\ WellFormed) =>
        /\ out.kind = "return"
        /\ \A p \in Players :
              /\ DOMAIN p = RecordFields
              /\ \A k \in TotalFields :
                    IF RawCell(Src(p), k[2]).t = "num"
                    THEN p[k[1]] = Num(RawCell(Src(p), k[2]).n, 1)
                    ELSE p[k[1]] = Zero

C6_Witness ==
    /\ out.kind = "return"
    /\ "FGM" \notin Names(data.headers)
    /\ \E p \in Players :
          /\ RawCell(Src(p), "PTS") = Null
          /\ RawCell(Src(p), "REB") = Undefined
          /\ p.pts = Zero /\ p.reb = Zero /\ p.fgm = Zero

\* C8: a payload without the result set, its headers or its rows makes the
\* normalizer raise an error and return nothing
C8_Malformed ==
    (Done /\ ~WellFormed) =>
        /\ out.kind = "throw"
        /\ out.players = <<>>
        /\ out.message # ""

C8_Witness ==
    /\ out.kind = "throw"
    /\ data.hasResultSet /\ data.hasHeaders /\ ~data.hasRows
    /\ Len(data.headers) > 0

---------------------------------------------------------------------------
(* fetchNBA and the /api/stats handler *)

\* the number of /api/stats requests
MaxReqs == 2
Reqs == 1..MaxReqs

\* Two tables and an object without a resultSet, and their JSON texts.  The
\* body of a response arrives as "data" chunks; the upstream sends "{A" "}",
\* "{B}" or "{}", or stops before the end of the text.
TableA == Table(ExampleHeaders, <<ExampleBase>>)
TableB == Table(ExampleHeaders,
                <<<<StrCell(2), StrCell(102), I(0), I(30), I(1), I(1), I(0), I(0), I(2)>>,
                  <<StrCell(3), StrCell(103), I(3), I(41), Null, I(9), I(5), I(3), I(1)>> >>)
EmptyObject == Malformed(<<FALSE, FALSE, FALSE>>, TableA)

\* the chunks that can follow the text received so far
NextChunks(text) ==
    IF text = <<>> THEN {"{A", "{B}", "{}"}
    ELSE IF text = <<"{A">> THEN {"}"}
    ELSE {}

NoValue == Table(<<>>, <<>>)

\* JSON.parse(data): the value, or a SyntaxError
JSONParse(text) ==
    IF text = <<"{A", "}">> THEN [ok |-> TRUE, value |-> TableA]
    ELSE IF text = <<"{B}">> THEN [ok |-> TRUE, value |-> TableB]
    ELSE IF text = <<"{}">> THEN [ok |-> TRUE, value |-> EmptyObject]
    ELSE [ok |-> FALSE, value |-> NoValue]

\* new Promise((resolve, reject) => ...)
Pending == [state |-> "pending", value |-> NoValue, reason |-> ""]
NoPromise == [state |-> "none", value |-> NoValue, reason |-> ""]
Resolved(v) == [state |-> "resolved", value |-> v, reason |-> ""]
Rejected(msg) == [state |-> "rejected", value |-> NoValue, reason |-> msg]

\* resolve(...) and reject(...): only the first call settles the promise
Settle(p, outcome) == IF p.state = "pending" THEN outcome ELSE p

\* let data = ""; data += chunk: the buffer of the response's own closure
ReceivedShared(u, r) == u[1].data
Received(u, r) == u[r].data

\* res.writeHead(200, ...); res.end(JSON.stringify(stats))
OkResponse(stats) == [status |-> 200, error |-> "", stats |-> stats]

\* the error answered with an empty result instead of a server error
ErrorResponseAsEmpty(msg) == [status |-> 200, error |-> "", stats |-> NoOutput]
\* res.writeHead(500, ...); res.end(JSON.stringify({ error: err.message }))
ErrorResponse(msg) == [status |-> 500, error |-> msg, stats |-> NoOutput]

NoExchange == [sent |-> FALSE, res |-> FALSE, wire |-> <<>>, data |-> <<>>,
               ended |-> FALSE, errored |-> FALSE, timedOut |-> FALSE]

Init ==
    /\ now = NormDate
    /\ season = <<>>
    /\ data = Table(<<>>, <<>>)
    /\ out = NoOutput
    /\ pc = [r \in Reqs |-> [at |-> "idle", season |-> <<>>]]
    /\ up = [r \in Reqs |-> NoExchange]
    /\ promise = [r \in Reqs |-> NoPromise]
    /\ response = [r \in Reqs |-> <<>>]
    /\ fetches = [r \in Reqs |-> 0]
    /\ normalized = [r \in Reqs |-> 0]

\* A request for /api/stats arrives: the handler calls getSeasonStats, which
\* computes the season, calls fetchNBA (https.get) and awaits its promise.
Arrive(r) ==
    /\ pc[r].at = "idle"
    /\ pc' = [pc EXCEPT ![r] = [at |-> "awaiting", season |-> getNBASeason(now)]]
    /\ fetches' = [fetches EXCEPT ![r] = @ + 1]
    /\ up' = [up EXCEPT ![r].sent = TRUE]
    /\ promise' = [promise EXCEPT ![r] = Pending]
    /\ UNCHANGED <<now, season, data, out, response, normalized>>

\* the callback of https.get: the response has begun
UpResponse(r) ==
    /\ up[r].sent /\ ~up[r].res /\ ~up[r].errored /\ ~up[r].timedOut
    /\ up' = [up EXCEPT ![r].res = TRUE]
    /\ UNCHANGED <<now, season, data, out, pc, promise, response, fetches, normalized>>

\* res.on("data"): the next chunk of the body, while the socket is alive
UpData(r) ==
    /\ up[r].res /\ ~up[r].ended /\ ~up[r].errored /\ ~up[r].timedOut
    /\ \E chunk \in NextChunks(up[r].wire) :
          up' = [up EXCEPT ![r].wire = Append(@, chunk),
                           ![r].data = Append(Received(up, r), chunk)]
    /\ UNCHANGED <<now, season, data, out, pc, promise, response, fetches, normalized>>

\* The handler after the await.  With the promise's value getSeasonStats
\* normalizes it and the handler answers 200, or 500 when the normalizer
\* throws; with the rejection the handler answers 500.
Answer(p, label, date) ==
    IF p.state = "resolved"
    THEN LET stats == Normalize(p.value, label, date)
         IN  IF stats.kind = "return" THEN OkResponse(stats)
             ELSE ErrorResponse(stats.message)
    ELSE ErrorResponse(p.reason)

\* resolve or reject called for request r.  The first call settles the
\* promise; the continuations of the two awaits (getSeasonStats, then the
\* handler) are promise jobs, which run to the end before the next event is
\* dispatched, so the response is written within the same step.
SettleAndContinue(r, outcome) ==
    /\ promise' = [promise EXCEPT ![r] = Settle(@, outcome)]
    /\ IF promise[r].state = "pending"
       THEN /\ pc' = [pc EXCEPT ![r].at = "done"]
            /\ normalized' = [normalized EXCEPT ![r] =
                                 IF outcome.state = "resolved" THEN @ + 1 ELSE @]
            /\ response' = [response EXCEPT ![r] =
                               Append(@, Answer(outcome, pc[r].season, now))]
       ELSE UNCHANGED <<pc, normalized, response>>

\* res.on("end")
UpEnd(r) ==
    /\ up[r].res /\ ~up[r].ended
    /\ up' = [up EXCEPT ![r].ended = TRUE]
    /\ SettleAndContinue(r, IF JSONParse(Received(up, r)).ok
                            THEN Resolved(JSONParse(Received(up, r)).value)
                            ELSE Rejected("Failed to parse NBA response"))
    /\ UNCHANGED <<now, season, data, out, fetches>>

\* req.on("error", reject): an error of the socket, while the exchange lasts
UpError(r) ==
    /\ up[r].sent /\ ~up[r].errored /\ ~up[r].ended
    /\ up' = [up EXCEPT ![r].errored = TRUE]
    /\ SettleAndContinue(r, Rejected("socket hang up"))
    /\ UNCHANGED <<now, season, data, out, fetches>>

\* req.on("timeout"): req.destroy(); reject(new Error("Request timed out")).
\* The socket's timer runs while the exchange lasts.
UpTimeout(r) ==
    /\ up[r].sent /\ ~up[r].timedOut /\ ~up[r].ended
    /\ up' = [up EXCEPT ![r].timedOut = TRUE]
    /\ SettleAndContinue(r, Rejected("Request timed out"))
    /\ UNCHANGED <<now, season, data, out, fetches>>

Next ==
    \E r \in Reqs :
        \/ Arrive(r)
        \/ UpResponse(r)
        \/ UpData(r)
        \/ UpEnd(r)
        \/ UpError(r)
        \/ UpTimeout(r)

Spec == Init /\ [][Next]_vars

\* A socket that stays idle for the 15 s of the timeout option gets its
\* timeout event.
FairSpec == Spec /\ \A r \in Reqs : WF_vars(UpTimeout(r))

---------------------------------------------------------------------------
(* Properties of the server *)

\* what the handler owes request r once the promise has settled
Owed(r) ==
    IF promise[r].state = "resolved"
    THEN LET stats == Normalize(promise[r].value, pc[r].season, now)
         IN  IF stats.kind = "return"
             THEN [status |-> 200, error |-> "", stats |-> stats]
             ELSE [status |-> 500, error |-> stats.message, stats |-> NoOutput]
    ELSE [status |-> 500, error |-> promise[r].reason, stats |-> NoOutput]

C9_Safe(r) ==
    /\ Len(response[r]) <= 1
    /\ (pc[r].at = "done") <=> (Len(response[r]) = 1)
    /\ promise[r].state = "resolved" => up[r].ended /\ JSONParse(up[r].wire).ok
    /\ promise[r].state = "rejected" =>
          /\ promise[r].reason # ""
          /\ \/ up[r].errored \/ up[r].timedOut
             \/ up[r].ended /\ ~JSONParse(up[r].wire).ok
    /\ Len(response[r]) = 1 =>
          /\ response[r][1] = Owed(r)
          /\ response[r][1].status = 500 =>
                response[r][1].error # "" /\ response[r][1].stats.players = <<>>

\* C9: a request gets exactly one response, in any order of the end, error
\* and timeout events: 200 with the ranked result when fetch and normalization
\* succeed, otherwise 500 with the error's message and no players
C9_OneResponse ==
    /\ [](\A r \in Reqs : C9_Safe(r))
    /\ \A r \in Reqs : (pc[r].at = "awaiting") ~> (Len(response[r]) = 1)

C9_Witness ==
    \E r \in Reqs :
        /\ up[r].ended /\ up[r].errored /\ up[r].timedOut
        /\ promise[r].state = "rejected"
        /\ JSONParse(up[r].wire).ok
        /\ Len(response[r]) = 1
        /\ response[r][1].status = 500

\* C10: each request makes one fetch and at most one normalization, and its
\* response is made from the body its own fetch received
C10_Isolated ==
    \A r \in Reqs :
        /\ fetches[r] = (IF pc[r].at = "idle" THEN 0 ELSE 1)
        /\ normalized[r] <= 1
        /\ up[r].data = up[r].wire
        /\ pc[r].at = "done" =>
              /\ normalized[r] = (IF promise[r].state = "resolved" THEN 1 ELSE 0)
              /\ response[r][1].status = 200 =>
                    /\ JSONParse(up[r].wire).ok
                    /\ response[r][1].stats =
                          Normalize(JSONParse(up[r].wire).value, getNBASeason(now), now)
              /\ (promise[r].state = "resolved" /\ JSONParse(up[r].wire).value.hasResultSet)
                    => response[r][1].status = 200

C10_Witness ==
    /\ \A r \in Reqs : pc[r].at = "done" /\ response[r][1].status = 200
    /\ up[1].wire # up[2].wire
    /\ response[1][1].stats.players # response[2][1].stats.players
    /\ \E r \in Reqs : Len(response[r][1].stats.players) = 2
    /\ \E r \in Reqs : Len(response[r][1].stats.players) = 1

=============================================================================
